---------------------------- MODULE Spec2Model ----------------------------
(***************************************************************************)
(* Model of the cluster command core of sour                               *)
(* (services/go/svc/cluster/service/commands.go): the argument classifier, *)
(* the rate-limited provisioner (creategame), the target resolver (join),  *)
(* the queue gateway (duel / stopduel), the timeout wrapper, the reminder  *)
(* loop, the verb switch and the grantmaster task.                         *)
(***************************************************************************)
EXTENDS Integers, Sequences, FiniteSets, TLC

(***************************************************************************)
(* Bounds of the model.                                                    *)
(***************************************************************************)
NumCmds == 2        \* creategame invocations in progress at once
MaxServers == 2     \* servers the manager creates in one behaviour
MaxArgs == 2        \* argument tokens drawn for the classifier

(***************************************************************************)
(* The cooldown interval, in clock ticks.  CREATE_SERVER_COOLDOWN is       *)
(* declared outside commands.go; only its use (line 125) is in the file.   *)
(***************************************************************************)
CREATE_SERVER_COOLDOWN == 2

\* reminders sent before the model stops counting
MaxReminders == 2
\* clients a game server holds at most in the model
MaxClients == 3

\* a private server with fewer clients than this gets the reminder (line 35)
MinPlayers == 2

\* the ceiling of the grantmaster task, in seconds (line 169)
GrantTimeout == 10

\* pieces a command text is made of in the model
MaxPieces == 2

\* the ceiling of RunCommandWithTimeout, in seconds (line 300)
CommandTimeout == 10

Cmds == 1..NumCmds
ServerIds == 1..MaxServers
NoServer == 0
NoTime == -1

Users == {"u1", "u2"}
Origins == {"o1", "o2"}

\* user.Connection.Host()
Host(u) == IF u = "u1" THEN "o1" ELSE "o2"

(***************************************************************************)
(* Optional values (opt.Option): an absent value keeps Go's zero value.    *)
(***************************************************************************)
SomeOf(v) == [some |-> TRUE, value |-> v]
NoneStr == [some |-> FALSE, value |-> ""]
NoneInt == [some |-> FALSE, value |-> 0]

\* error values: kind names the message, arg the value formatted into it
NoErr == [kind |-> "nil", arg |-> ""]
Err(k, a) == [kind |-> k, arg |-> a]

\* (handled, response, err)
Result(h, e) == [handled |-> h, response |-> "", err |-> e]
NoResult == [handled |-> FALSE, response |-> "pending", err |-> NoErr]

(***************************************************************************)
(* Argument classifier.                                                    *)
(***************************************************************************)
getModeNames ==
    << "ffa", "coop", "teamplay", "insta", "instateam", "effic", "efficteam",
       "tac", "tacteam", "capture", "regencapture", "ctf", "instactf",
       "protect", "instaprotect", "hold", "instahold", "efficctf",
       "efficprotect", "effichold", "collect", "instacollect",
       "efficcollect" >>

\* tokens a player may type in the model
Tokens == {"ffa", "ctf", "dust", "duel", "xyz123"}
PresetNames == {"default", "duel"}

VARIABLES
    knownMaps,      \* manager.Maps: the names FindMap resolves
    presetOf,       \* manager.FindPreset(arg, false): token -> preset name or ""
    inferArgs,      \* classifier check: the argument list drawn
    inferOut,       \* classifier check: the result of inferCreateParams
    sinceCreate,    \* per origin: time.Now().Sub(server.lastCreate[origin]),
                    \* NoTime without an entry; it stops counting at the
                    \* cooldown, beyond which line 125 tells no difference
    hostServers,    \* server.hostServers: origin -> the server it owns
    createMutex,    \* server.createMutex: the command holding it, or 0
    nextId,         \* manager: number of servers created so far
    srvState,       \* manager: "none", "created", "running" or "removed"
    srvCmds,        \* per server: the directives received by SendCommand
    userServer,     \* user.Server: the session's current server
    connecting,     \* per user: the server of the connection in progress
    cmd,            \* per creategame invocation: position and locals
    srvRef,         \* per server: the reference IsReference matches
    spaces,         \* the codes spaces.SearchSpace finds a space for
    jn,             \* the join command: position, locals, calls made
    queued,         \* matchmaking: per user the duel type queued for
    qcmd,           \* the duel / stopduel command: input, result, calls
    wrap,           \* RunCommandWithTimeout and its dispatcher task
    numClients,     \* gameServer.NumClients of the watched server
    gsMutex,        \* gameServer.Mutex: its holder
    loop,           \* GivePrivateMatchHelp: position, locals, lifetimes
    rc,             \* RunCommand: the command text, its tokens, the case taken
    grant           \* the grantmaster task of a creategame and its connection

\* getModeNumber: the 0-based position in getModeNames, or None
getModeNumber(mode) ==
    IF \E i \in 1..Len(getModeNames) : getModeNames[i] = mode
    THEN SomeOf((CHOOSE i \in 1..Len(getModeNames) :
                    /\ getModeNames[i] = mode
                    /\ \A j \in 1..(i-1) : getModeNames[j] # mode) - 1)
    ELSE NoneInt

FindMap(arg) == IF arg \in knownMaps THEN SomeOf(arg) ELSE NoneStr

FindPreset(arg) == IF presetOf[arg] # "" THEN SomeOf(presetOf[arg]) ELSE NoneStr

EmptyParams == [Map |-> NoneStr, Preset |-> NoneStr, Mode |-> NoneInt]

\* mutant: a token that matches nothing is skipped
InferArgSkipUnknown(acc, arg) ==
    IF getModeNumber(arg).some
    THEN [acc EXCEPT !.params.Mode = getModeNumber(arg)]
    ELSE IF FindMap(arg).some
    THEN [acc EXCEPT !.params.Map = SomeOf(arg)]
    ELSE IF FindPreset(arg).some
    THEN [acc EXCEPT !.params.Preset = SomeOf(FindPreset(arg).value)]
    ELSE acc

\* mutant: the map catalog is asked before the mode catalog
InferArgMapFirst(acc, arg) ==
    IF acc.err # NoErr THEN acc
    ELSE IF FindMap(arg).some
         THEN [acc EXCEPT !.params.Map = SomeOf(arg)]
    ELSE IF getModeNumber(arg).some
         THEN [acc EXCEPT !.params.Mode = getModeNumber(arg)]
    ELSE IF FindPreset(arg).some
         THEN [acc EXCEPT !.params.Preset = SomeOf(FindPreset(arg).value)]
    ELSE [acc EXCEPT !.err = Err("argument neither map nor mode", arg)]

\* one iteration of the loop of inferCreateParams (lines 76-96)
InferArg(acc, arg) ==
    IF acc.err # NoErr THEN acc
    ELSE IF getModeNumber(arg).some
         THEN [acc EXCEPT !.params.Mode = getModeNumber(arg)]
    ELSE IF FindMap(arg).some
         THEN [acc EXCEPT !.params.Map = SomeOf(arg)]
    ELSE IF FindPreset(arg).some
         THEN [acc EXCEPT !.params.Preset = SomeOf(FindPreset(arg).value)]
    ELSE [acc EXCEPT !.err = Err("argument neither map nor mode", arg)]

RECURSIVE InferLoop(_, _)
InferLoop(acc, args) ==
    IF args = << >> THEN acc
    ELSE InferLoop(InferArg(acc, Head(args)), Tail(args))

\* inferCreateParams(args): (params, err); params are nil when err is set
inferCreateParams(args) ==
    LET r == InferLoop([params |-> EmptyParams, err |-> NoErr], args)
    IN  IF r.err # NoErr THEN [params |-> EmptyParams, err |-> r.err] ELSE r


(***************************************************************************)
(* Rate-limited provisioner: RunCommand, case "creategame".                *)
(***************************************************************************)
catalogVars == << knownMaps, presetOf >>
inferVars == << inferArgs, inferOut >>
createVars == << sinceCreate, hostServers, createMutex, nextId, srvState,
                 srvCmds, userServer, connecting, cmd >>
joinVars == << srvRef, spaces, jn >>
queueVars == << queued, qcmd >>
wrapVars == << wrap >>
loopVars == << numClients, gsMutex, loop >>
runVars == << rc >>
grantVars == << grant >>

\* what the creategame steps leave alone
outsideCreate == << catalogVars, inferVars, joinVars, queueVars, wrapVars,
                   loopVars, runVars, grantVars >>

RECURSIVE SeqsUpTo(_, _)
SeqsUpTo(S, n) ==
    IF n = 0 THEN { << >> }
    ELSE LET shorter == SeqsUpTo(S, n - 1)
         IN  shorter \cup { Append(q, x) : q \in shorter, x \in S }

\* the argument lists of the classifier model and of the one-command model
AllArgs == SeqsUpTo(Tokens, MaxArgs)

\* the argument list of the commands that run concurrently: "creategame"
CreateArgs == { << >> }

Directive(op, map, mode) == [op |-> op, map |-> map, mode |-> mode]

IdleCmd == [pc |-> "idle", user |-> "u1", args |-> << >>,
            params |-> EmptyParams, existingServer |-> NoServer,
            gameServer |-> NoServer, conn |-> "none", help |-> NoServer,
            sinceRec |-> NoTime, result |-> NoResult]

InitCreate ==
    /\ sinceCreate = [o \in Origins |-> NoTime]
    /\ hostServers = [o \in Origins |-> NoServer]
    /\ createMutex = 0
    /\ nextId = 0
    /\ srvState = [s \in ServerIds |-> "none"]
    /\ srvCmds = [s \in ServerIds |-> << >>]
    /\ userServer = [u \in Users |-> NoServer]
    /\ connecting = [u \in Users |-> NoServer]
    /\ cmd = [c \in Cmds |-> IdleCmd]

InitCatalog ==
    /\ knownMaps = {"dust"}
    /\ presetOf = [t \in Tokens |-> IF t = "duel" THEN "duel" ELSE ""]

\* inferCreateParams has not been called
InferPending == [params |-> EmptyParams, err |-> Err("pending", "")]

InitInferIdle ==
    /\ inferArgs = << >>
    /\ inferOut = InferPending

\* one more tick since t, up to the cooldown
Elapse(t) ==
    IF t = NoTime \/ t >= CREATE_SERVER_COOLDOWN THEN t ELSE t + 1

\* the clock advances
Tick ==
    /\ \E o \in Origins, c \in Cmds :
          \/ sinceCreate[o] \in 0..(CREATE_SERVER_COOLDOWN - 1)
          \/ cmd[c].sinceRec \in 0..(CREATE_SERVER_COOLDOWN - 1)
    /\ sinceCreate' = [o \in Origins |-> Elapse(sinceCreate[o])]
    /\ cmd' = [c \in Cmds |-> [cmd[c] EXCEPT !.sinceRec = Elapse(@)]]
    /\ UNCHANGED << hostServers, createMutex, nextId, srvState, srvCmds,
                    userServer, connecting >>
    /\ UNCHANGED outsideCreate

\* a finished invocation keeps its session, its arguments and its result
Done(c, res) == [IdleCmd EXCEPT !.pc = "done", !.user = cmd[c].user,
                                !.args = cmd[c].args, !.result = res]

\* mutant: a return that leaves the lock held
ReturnHoldingLock(c, res) ==
    /\ cmd' = [cmd EXCEPT ![c] = Done(c, res)]
    /\ UNCHANGED createMutex

\* return from RunCommand; the deferred Unlock (line 122) runs when the
\* lock was taken
Return(c, res) ==
    /\ cmd' = [cmd EXCEPT ![c] = Done(c, res)]
    /\ createMutex' = IF createMutex = c THEN 0 ELSE createMutex

\* lines 105-119: split the command, classify the arguments
ClassifyFrom(c, argSet) ==
    /\ cmd[c].pc = "idle"
    /\ \A d \in Cmds : d < c => cmd[d].pc # "idle"
    /\ \E u \in Users, args \in argSet :
         LET r == IF Len(args) > 0 THEN inferCreateParams(args)
                  ELSE [params |-> EmptyParams, err |-> NoErr]
         IN  IF r.err # NoErr
             THEN cmd' = [cmd EXCEPT ![c] =
                             [IdleCmd EXCEPT !.pc = "done", !.user = u,
                                             !.args = args,
                                             !.result = Result(TRUE, r.err)]]
             ELSE cmd' = [cmd EXCEPT ![c].pc = "lock", ![c].user = u,
                                     ![c].args = args, ![c].params = r.params]
    /\ UNCHANGED << sinceCreate, hostServers, createMutex, nextId,
                    srvState, srvCmds, userServer, connecting >>
    /\ UNCHANGED outsideCreate

Classify(c) == ClassifyFrom(c, CreateArgs)

ClassifyAny(c) == ClassifyFrom(c, AllArgs)

\* mutant: the cooldown is checked without taking the lock
LockNotTaken(c) == TRUE

\* line 121: createMutex.Lock() blocks while another command holds the lock
LockFree(c) == createMutex = 0

\* line 125: the cooldown test
TooSoon(o) ==
    /\ sinceCreate[o] # NoTime
    /\ sinceCreate[o] < CREATE_SERVER_COOLDOWN

\* lines 121-127: take the lock, check the cooldown
LockAndCheck(c) ==
    /\ cmd[c].pc = "lock"
    /\ LockFree(c)
    /\ IF TooSoon(Host(cmd[c].user))
       THEN /\ cmd' = [cmd EXCEPT ![c] = Done(c, Result(TRUE,
                             Err("too soon since last server create", "")))]
            /\ UNCHANGED createMutex
       ELSE /\ cmd' = [cmd EXCEPT ![c].pc = "remove"]
            /\ createMutex' = c
    /\ UNCHANGED << sinceCreate, hostServers, nextId, srvState, srvCmds,
                    userServer, connecting >>
    /\ UNCHANGED outsideCreate

\* lines 129-132: request removal of the server the origin owns
RemoveExisting(c) ==
    /\ cmd[c].pc = "remove"
    /\ LET existingServer == hostServers[Host(cmd[c].user)]
       IN  IF existingServer # NoServer
           THEN /\ srvState' = [srvState EXCEPT ![existingServer] = "removed"]
                /\ cmd' = [cmd EXCEPT ![c].pc = "new",
                                      ![c].existingServer = existingServer]
           ELSE /\ cmd' = [cmd EXCEPT ![c].pc = "new"]
                /\ UNCHANGED srvState
    /\ UNCHANGED << sinceCreate, hostServers, createMutex, nextId,
                    srvCmds, userServer, connecting >>
    /\ UNCHANGED outsideCreate

\* lines 136-145: manager.NewServer, which may fail
NewServer(c) ==
    /\ cmd[c].pc = "new"
    /\ \/ /\ nextId < MaxServers
          /\ nextId' = nextId + 1
          /\ srvState' = [srvState EXCEPT ![nextId + 1] = "created"]
          /\ cmd' = [cmd EXCEPT ![c].pc = "start",
                                ![c].gameServer = nextId + 1]
          /\ UNCHANGED createMutex
       \/ /\ Return(c, Result(TRUE, Err("failed to create server", "")))
          /\ UNCHANGED << nextId, srvState >>
    /\ UNCHANGED << sinceCreate, hostServers, srvCmds, userServer, connecting >>
    /\ UNCHANGED outsideCreate

\* lines 149-153: gameServer.StartAndWait, which may fail
StartAndWait(c) ==
    /\ cmd[c].pc = "start"
    /\ \/ /\ srvState' = [srvState EXCEPT ![cmd[c].gameServer] = "running"]
          /\ cmd' = [cmd EXCEPT ![c].pc = "directive"]
          /\ UNCHANGED createMutex
       \/ /\ Return(c, Result(TRUE, Err("server failed to start", "")))
          /\ UNCHANGED srvState
    /\ UNCHANGED << sinceCreate, hostServers, nextId, srvCmds,
                    userServer, connecting >>
    /\ UNCHANGED outsideCreate

\* mutant: mode and map are sent as two directives
CreateDirectivesSeparate(params) ==
    (IF params.Mode.some
     THEN << [op |-> "setmode", map |-> "", mode |-> params.Mode.value] >>
     ELSE << >>)
    \o (IF params.Map.some
        THEN << [op |-> "setmap", map |-> params.Map.value, mode |-> 0] >>
        ELSE << >>)

\* lines 155-161: the directives sent for the classified mode and map
CreateDirectives(params) ==
    IF params.Mode.some /\ params.Map.some
    THEN << Directive("changemap", params.Map.value, params.Mode.value) >>
    ELSE IF params.Mode.some
    THEN << Directive("setmode", "", params.Mode.value) >>
    ELSE IF params.Map.some
    THEN << Directive("setmap", params.Map.value, 0) >>
    ELSE << >>

SendDirectives(c) ==
    /\ cmd[c].pc = "directive"
    /\ srvCmds' = [srvCmds EXCEPT ![cmd[c].gameServer] =
                       @ \o CreateDirectives(cmd[c].params)]
    /\ cmd' = [cmd EXCEPT ![c].pc = "record"]
    /\ UNCHANGED << sinceCreate, hostServers, createMutex, nextId,
                    srvState, userServer, connecting >>
    /\ UNCHANGED outsideCreate

\* mutant: the Ownership Record keeps the server it held
StaleOwner(c) == hostServers[Host(cmd[c].user)]

\* line 164: the server written to the Ownership Record
RecordedOwner(c) == cmd[c].gameServer

\* lines 163-164: the Cooldown Record and the Ownership Record
Record(c) ==
    /\ cmd[c].pc = "record"
    /\ sinceCreate' = [sinceCreate EXCEPT ![Host(cmd[c].user)] = 0]
    /\ hostServers' = [hostServers EXCEPT ![Host(cmd[c].user)] =
                          RecordedOwner(c)]
    /\ cmd' = [cmd EXCEPT ![c].pc = "connect", ![c].sinceRec = 0]
    /\ UNCHANGED << createMutex, nextId, srvState, srvCmds, userServer, connecting >>
    /\ UNCHANGED outsideCreate

\* line 166: user.ConnectToServer starts the connection or fails to
ConnectToServer(c) ==
    /\ cmd[c].pc = "connect"
    /\ \/ /\ connecting' = [connecting EXCEPT ![cmd[c].user] =
                                cmd[c].gameServer]
          /\ cmd' = [cmd EXCEPT ![c].pc = "spawn", ![c].conn = "started"]
       \/ /\ cmd' = [cmd EXCEPT ![c].pc = "spawn", ![c].conn = "failed"]
          /\ UNCHANGED connecting
    /\ UNCHANGED << sinceCreate, hostServers, createMutex, nextId,
                    srvState, srvCmds, userServer >>
    /\ UNCHANGED outsideCreate

\* lines 167-184: start the reminder loop on user.Server, and the grant task
SpawnTasks(c) ==
    /\ cmd[c].pc = "spawn"
    /\ cmd' = [cmd EXCEPT ![c].pc = "return",
                          ![c].help = userServer[cmd[c].user]]
    /\ UNCHANGED << sinceCreate, hostServers, createMutex, nextId,
                    srvState, srvCmds, userServer, connecting >>
    /\ UNCHANGED outsideCreate

\* line 186
ReturnCreated(c) ==
    /\ cmd[c].pc = "return"
    /\ Return(c, Result(TRUE, NoErr))
    /\ UNCHANGED << sinceCreate, hostServers, nextId, srvState, srvCmds,
                    userServer, connecting >>
    /\ UNCHANGED outsideCreate

\* the connection started by Connect or ConnectToServer completes, or fails
ConnectDone(u) ==
    /\ connecting[u] # NoServer
    /\ connecting' = [connecting EXCEPT ![u] = NoServer]
    /\ \/ userServer' = [userServer EXCEPT ![u] = connecting[u]]
       \/ UNCHANGED userServer
    /\ UNCHANGED << sinceCreate, hostServers, createMutex, nextId,
                    srvState, srvCmds, cmd >>
    /\ UNCHANGED << catalogVars, inferVars, joinVars, queueVars, wrapVars,
                    loopVars, runVars, grantVars >>

\* the caller has taken the result: the slot serves the next invocation
Collect(c) ==
    /\ cmd[c].pc = "done"
    /\ cmd' = [cmd EXCEPT ![c] = IdleCmd]
    /\ UNCHANGED << sinceCreate, hostServers, createMutex, nextId,
                    srvState, srvCmds, userServer, connecting >>
    /\ UNCHANGED outsideCreate

(***************************************************************************)
(* Idle values of the other components.                                    *)
(***************************************************************************)
Targets == {"x", "y"}

\* the reference of the servers the provisioner creates
DefaultRef(s) == IF s % 2 = 1 THEN "x" ELSE "y"

IdleJoin == [pc |-> "idle", user |-> "u1", args |-> << >>, calls |-> << >>,
             result |-> NoResult]

InitJoinIdle ==
    /\ srvRef = [s \in ServerIds |-> DefaultRef(s)]
    /\ spaces = {}
    /\ jn = IdleJoin

IdleQueueCmd == [pc |-> "idle", user |-> "u1", args |-> << >>,
                 calls |-> << >>, result |-> NoResult]

InitQueueIdle ==
    /\ queued = [u \in Users |-> "none"]
    /\ qcmd = IdleQueueCmd

IdleWrap == [pc |-> "idle", disp |-> "none", elapsed |-> 0,
             ctxDone |-> FALSE, deadline |-> FALSE, dres |-> NoResult,
             out |-> NoResult]

InitWrapIdle == wrap = IdleWrap

\* the loop-local numClients before line 32 assigns it
NoRead == -1

IdleLoop == [pc |-> "idle", read |-> NoRead, sent |-> 0,
             sessionDone |-> FALSE, ctxDone |-> FALSE, sawFull |-> FALSE]

InitLoopIdle ==
    /\ numClients = 0
    /\ gsMutex = "free"
    /\ loop = IdleLoop

IdleRun == [pc |-> "idle", user |-> "u1", text |-> << >>, args |-> << >>,
            route |-> "", result |-> NoResult]

InitRunIdle == rc = IdleRun

IdleGrant == [pc |-> "idle", conn |-> "none", report |-> "none",
              elapsed |-> 0, ctxDone |-> FALSE, sessionDone |-> FALSE,
              sent |-> 0]

InitGrantIdle == grant = IdleGrant

vars == << catalogVars, inferVars, createVars, joinVars, queueVars,
           wrapVars, loopVars, runVars, grantVars >>

(***************************************************************************)
(* Spec: creategame commands of two origins, running concurrently, with    *)
(* the clock.                                                              *)
(***************************************************************************)
Init ==
    /\ InitCatalog /\ InitInferIdle /\ InitCreate
    /\ InitJoinIdle /\ InitQueueIdle /\ InitWrapIdle /\ InitLoopIdle /\ InitRunIdle /\ InitGrantIdle

Next ==
    \/ Tick
    \/ \E c \in Cmds :
          \/ Classify(c)
          \/ LockAndCheck(c)
          \/ RemoveExisting(c)
          \/ NewServer(c)
          \/ StartAndWait(c)
          \/ SendDirectives(c)
          \/ Record(c)
          \/ ConnectToServer(c)
          \/ SpawnTasks(c)
          \/ ReturnCreated(c)
          \/ Collect(c)

Spec == Init /\ [][Next]_vars

\* the origin of the command in slot c
OriginOf(c) == Host(cmd[c].user)

\* the cooldown interval has not elapsed since the origin's Cooldown Record
WithinCooldown(o) == sinceCreate[o] \in 0..(CREATE_SERVER_COOLDOWN - 1)

\* between the cooldown check it passed and its write of the records
Provisioning(c) ==
    cmd[c].pc \in {"remove", "new", "start", "directive", "record"}

RateLimited == Result(TRUE, Err("too soon since last server create", ""))

C1_CheckStep ==
    \A c \in Cmds :
        (cmd[c].pc = "lock" /\ cmd'[c].pc # "lock"
                            /\ WithinCooldown(OriginOf(c)))
        => /\ cmd'[c].pc = "done"
           /\ cmd'[c].result = RateLimited
           /\ nextId' = nextId
           /\ srvState' = srvState

C1_RecordStep ==
    \A c \in Cmds :
        (cmd[c].pc = "record" /\ cmd'[c].pc # "record")
        => ~WithinCooldown(OriginOf(c))

C1_Inv ==
    \A c \in Cmds :
        Provisioning(c)
        => /\ ~WithinCooldown(OriginOf(c))
           /\ \A d \in Cmds \ {c} :
                 ~(Provisioning(d) /\ OriginOf(d) = OriginOf(c))

\* C1: once a creategame has recorded a creation for an origin, a
\* creategame of that origin that checks the cooldown before the interval
\* has elapsed returns the rate-limit error and requests no server; in every
\* interleaving, no command of the origin is provisioning, and none records
\* a creation, within one cooldown interval of the origin's last record, and
\* no two commands of one origin are provisioning at once.
C1_Cooldown == [][C1_CheckStep /\ C1_RecordStep]_vars /\ []C1_Inv

\* a command was refused inside the cooldown of its origin's last creation
C1_Witness ==
    \E c \in Cmds :
        /\ cmd[c].pc = "done"
        /\ cmd[c].result = RateLimited
        /\ WithinCooldown(OriginOf(c))
        /\ hostServers[OriginOf(c)] # NoServer

C2_Inv ==
    \A c \in Cmds :
        LET o == OriginOf(c)
            old == cmd[c].existingServer
            new == cmd[c].gameServer
        IN  /\ cmd[c].pc = "new"
               => /\ old = hostServers[o]
                  /\ new = NoServer
                  /\ old # NoServer
                     => srvState[old] = "removed"
            /\ cmd[c].pc \in {"connect", "spawn", "return"}
               => /\ new # NoServer /\ new # old
                  /\ hostServers[o] = new
                  /\ srvState[new] = "running"
                  /\ sinceCreate[o] = cmd[c].sinceRec
                  /\ cmd[c].sinceRec # NoTime

C2_Step ==
    \A c \in Cmds :
        /\ (cmd[c].pc = "lock" /\ cmd'[c].pc # "lock"
                               /\ ~WithinCooldown(OriginOf(c)))
           => cmd'[c].pc = "remove"
        /\ (cmd[c].pc = "return" /\ cmd'[c].pc # "return")
           => /\ cmd'[c].pc = "done"
              /\ cmd'[c].result = Result(TRUE, NoErr)
              /\ hostServers'[OriginOf(c)] = cmd[c].gameServer
              /\ sinceCreate'[OriginOf(c)] = cmd[c].sinceRec

\* C2: a creategame of an origin that owns a server, checked after the
\* cooldown has elapsed, is not refused; it requests the removal of the old
\* server before it requests the new one; and when the manager succeeds it
\* returns success with the Ownership Record holding the new server and the
\* Cooldown Record holding the time of this creation.
C2_Replace == [][C2_Step]_vars /\ []C2_Inv

\* a command that replaced the origin's old server is about to return
C2_Witness ==
    \E c \in Cmds :
        /\ cmd[c].pc = "return"
        /\ cmd[c].existingServer # NoServer
        /\ hostServers[OriginOf(c)] = cmd[c].gameServer
        /\ srvState[cmd[c].existingServer] = "removed"

(***************************************************************************)
(* SpecArgs: one creategame with any argument list of up to MaxArgs        *)
(* tokens.                                                                 *)
(***************************************************************************)
NextArgs ==
    \/ Tick
    \/ ClassifyAny(1)
    \/ LockAndCheck(1)
    \/ RemoveExisting(1)
    \/ NewServer(1)
    \/ StartAndWait(1)
    \/ SendDirectives(1)
    \/ Record(1)
    \/ ConnectToServer(1)
    \/ SpawnTasks(1)
    \/ ReturnCreated(1)

SpecArgs == Init /\ [][NextArgs]_vars

\* the token is no known mode, no known map and no known preset
Unknown(t) ==
    /\ \A i \in 1..Len(getModeNames) : getModeNames[i] # t
    /\ t \notin knownMaps
    /\ presetOf[t] = ""

HasUnknown(args) == \E i \in 1..Len(args) : Unknown(args[i])

FirstUnknown(args) ==
    args[CHOOSE i \in 1..Len(args) :
            /\ Unknown(args[i])
            /\ \A j \in 1..(i - 1) : ~Unknown(args[j])]

C3_Inv ==
    \A c \in Cmds :
        (cmd[c].pc # "idle" /\ HasUnknown(cmd[c].args))
        => /\ cmd[c].pc = "done"
           /\ cmd[c].result.handled
           /\ cmd[c].result.err =
                 Err("argument neither map nor mode", FirstUnknown(cmd[c].args))

C3_Step ==
    \A c \in Cmds :
        (cmd[c].pc = "idle" /\ cmd'[c].pc # "idle"
                            /\ HasUnknown(cmd'[c].args))
        => UNCHANGED << sinceCreate, hostServers, createMutex, nextId,
                        srvState, srvCmds, userServer,
                        connecting >>

\* C3: a creategame with an argument that is no known mode, map or preset
\* returns handled with an error naming the token, in the one step that
\* classifies it: it never takes the lock or reaches a later step (no
\* removal, no server, no connection, no task), and the Cooldown and
\* Ownership Records, the servers and the sessions are unchanged.
C3_UnknownToken == [][C3_Step]_vars /\ []C3_Inv

\* a command with a known and an unknown token has returned
C3_Witness ==
    /\ cmd[1].pc = "done"
    /\ cmd[1].args = << "ffa", "xyz123" >>
    /\ cmd[1].result.err.arg = "xyz123"

\* the single directive the classified parameters call for
C8_Expected(c, d) ==
    LET m == cmd[c].params.Mode
        p == cmd[c].params.Map
    IN  /\ (m.some /\ p.some)
           => d.op = "changemap" /\ d.map = p.value /\ d.mode = m.value
        /\ (m.some /\ ~p.some) => d.op = "setmode" /\ d.mode = m.value
        /\ (~m.some /\ p.some) => d.op = "setmap" /\ d.map = p.value

\* C8: in a creategame, no directive reaches the new server before it is
\* ready; once it is ready and before the Ownership Record is written it
\* has received exactly one directive when a mode and/or a map was
\* classified (changemap with both, setmode or setmap with one) and none
\* when neither was; "ffa dust" gives changemap dust 0.
C8_Directives ==
    \A c \in Cmds :
        LET s == cmd[c].gameServer
        IN  /\ cmd[c].pc \in {"start", "directive"} => srvCmds[s] = << >>
            /\ cmd[c].pc = "record"
               => /\ srvState[s] = "running"
                  /\ hostServers[OriginOf(c)] # s
                  /\ Len(srvCmds[s]) =
                        IF cmd[c].params.Mode.some \/ cmd[c].params.Map.some
                        THEN 1 ELSE 0
                  /\ Len(srvCmds[s]) = 1 => C8_Expected(c, srvCmds[s][1])
                  /\ cmd[c].args = << "ffa", "dust" >>
                     => srvCmds[s] = << Directive("changemap", "dust", 0) >>

\* the new server of "creategame ctf dust" holds its combined directive
C8_Witness ==
    /\ cmd[1].pc = "record"
    /\ cmd[1].args = << "ctf", "dust" >>
    /\ srvCmds[cmd[1].gameServer] = << Directive("changemap", "dust", 11) >>

(***************************************************************************)
(* SpecInfer: inferCreateParams on any argument list of up to MaxArgs      *)
(* tokens, under any catalog of maps and presets over the tokens.          *)
(***************************************************************************)
\* tokens that may name a map, and tokens FindPreset may match
MapCandidates == {"ffa", "dust", "duel"}
PresetCandidates == {"ctf", "dust", "duel"}

\* FindPreset(arg, false) is not exact: the preset found may have another name
PresetNameFor(t) == IF t = "duel" THEN "duel" ELSE "default"

InitInfer ==
    /\ knownMaps \in SUBSET MapCandidates
    /\ \E keys \in SUBSET PresetCandidates :
          presetOf = [t \in Tokens |->
                         IF t \in keys THEN PresetNameFor(t) ELSE ""]
    /\ inferArgs \in AllArgs
    /\ inferOut = InferPending
    /\ InitCreate /\ InitJoinIdle /\ InitQueueIdle /\ InitWrapIdle
    /\ InitLoopIdle /\ InitRunIdle /\ InitGrantIdle

\* the call
InferCall ==
    /\ inferOut = InferPending
    /\ inferOut' = inferCreateParams(inferArgs)
    /\ UNCHANGED << inferArgs, catalogVars, createVars, joinVars, queueVars,
                    wrapVars, loopVars, runVars, grantVars >>

NextInfer == InferCall

SpecInfer == InitInfer /\ [][NextInfer]_vars

IsMode(t) == \E i \in 1..Len(getModeNames) : getModeNames[i] = t

\* the category of a token under the priority mode, map, preset
Category(t) ==
    IF IsMode(t) THEN "mode"
    ELSE IF t \in knownMaps THEN "map"
    ELSE IF presetOf[t] # "" THEN "preset"
    ELSE "none"

TokensOf(args, cat) ==
    { args[i] : i \in { j \in 1..Len(args) : Category(args[j]) = cat } }

C9_Inv ==
    inferOut # InferPending =>
        LET args == inferArgs
            out == inferOut
        IN  IF TokensOf(args, "none") # {}
            THEN /\ out.err = Err("argument neither map nor mode",
                                  FirstUnknown(args))
                 /\ out.params = EmptyParams
            ELSE /\ out.err = NoErr
                 /\ out.params.Mode.some <=> TokensOf(args, "mode") # {}
                 /\ out.params.Map.some <=> TokensOf(args, "map") # {}
                 /\ out.params.Preset.some <=> TokensOf(args, "preset") # {}
                 /\ out.params.Mode.some =>
                       getModeNames[out.params.Mode.value + 1]
                           \in TokensOf(args, "mode")
                 /\ out.params.Map.some =>
                       out.params.Map.value \in TokensOf(args, "map")
                 /\ out.params.Preset.some =>
                       out.params.Preset.value \in
                           { presetOf[t] : t \in TokensOf(args, "preset") }

\* C9: under any catalog, inferCreateParams fails exactly when a token is
\* no mode, map or preset, naming the first such token; otherwise every
\* token counts for one category by the priority mode, map, preset: a field
\* is present exactly when a token of its category occurs, the mode field is
\* the catalog index of such a token, and the call changes nothing else.
C9_Classification ==
    [][UNCHANGED << catalogVars, createVars >>]_vars /\ []C9_Inv

\* "ffa" is also a map and "dust" also a preset: mode and map win
C9_Witness ==
    /\ inferArgs = << "ffa", "dust" >>
    /\ "ffa" \in knownMaps /\ "dust" \in knownMaps /\ presetOf["dust"] # ""
    /\ inferOut.params = [Map |-> SomeOf("dust"), Preset |-> NoneStr,
                          Mode |-> SomeOf(0)]

(***************************************************************************)
(* Target resolver: RunCommand, case "join".                               *)
(***************************************************************************)
\* what the join steps leave alone
outsideJoin == << catalogVars, inferVars, sinceCreate, hostServers,
                 createMutex, nextId, srvCmds, cmd, queueVars, wrapVars,
                 loopVars, runVars, grantVars >>

\* a call to a collaborator: the function, its server, its code
Call(fn, srv, code) == [fn |-> fn, srv |-> srv, code |-> code]

\* gameServer.IsReference(target)
IsReference(s, target) == srvRef[s] = target

\* gameServer.IsRunning()
IsRunning(s) == srvState[s] = "running"

\* server.manager.Servers, in the order of the slice
Registry == { s \in ServerIds : srvState[s] \in {"created", "running"} }

\* mutant: a server that is not running matches too
JoinMatchesAnyState(target) ==
    { s \in Registry : IsReference(s, target) }

\* line 229: the servers the scan does not skip
JoinMatches(target) ==
    { s \in Registry : IsReference(s, target) /\ IsRunning(s) }

First(S) == CHOOSE s \in S : \A r \in S : s <= r

JoinDone(u, args, calls, res) ==
    jn' = [pc |-> "done", user |-> u, args |-> args, calls |-> calls,
           result |-> res]

\* lines 105-226: split; the argument count; the session's current server
JoinCheck ==
    /\ jn.pc = "idle"
    /\ \E u \in Users, args \in SeqsUpTo(Targets, 2) :
         IF Len(args) # 1
         THEN JoinDone(u, args, << >>,
                       Result(TRUE, Err("join takes a single argument", "")))
         ELSE IF userServer[u] # NoServer
                 /\ IsReference(userServer[u], args[1])
         THEN \* break (line 224), then the return of line 296
              JoinDone(u, args, << >>, Result(FALSE, NoErr))
         ELSE jn' = [jn EXCEPT !.pc = "scan", !.user = u, !.args = args,
                               !.calls = << >>, !.result = NoResult]
    /\ UNCHANGED << srvRef, spaces, srvState, userServer, connecting >>
    /\ UNCHANGED outsideJoin

\* lines 228-239: a running server matches
JoinServer ==
    /\ jn.pc = "scan"
    /\ JoinMatches(jn.args[1]) # {}
    /\ LET gameServer == First(JoinMatches(jn.args[1]))
           calls == << Call("Connect", gameServer, "") >>
       IN  \/ /\ JoinDone(jn.user, jn.args, calls,
                          Result(TRUE, Err("connect failed", "")))
              /\ UNCHANGED connecting
           \/ /\ JoinDone(jn.user, jn.args, calls, Result(TRUE, NoErr))
              /\ connecting' = [connecting EXCEPT ![jn.user] = gameServer]
    /\ UNCHANGED << srvRef, spaces, srvState, userServer >>
    /\ UNCHANGED outsideJoin

\* lines 241-257: no running server matches: look for a space
JoinSpace ==
    /\ jn.pc = "scan"
    /\ JoinMatches(jn.args[1]) = {}
    /\ LET target == jn.args[1]
           search == Call("SearchSpace", NoServer, target)
           start == Call("StartSpace", NoServer, target)
       IN  \/ \* SearchSpace fails
              /\ JoinDone(jn.user, jn.args, << search >>,
                          Result(TRUE, Err("search failed", "")))
              /\ UNCHANGED << srvRef, srvState, connecting >>
           \/ \* no space has the code
              /\ target \notin spaces
              /\ JoinDone(jn.user, jn.args, << search >>,
                          Result(TRUE,
                              Err("failed to find server or space matching",
                                  target)))
              /\ UNCHANGED << srvRef, srvState, connecting >>
           \/ \* StartSpace fails
              /\ target \in spaces
              /\ JoinDone(jn.user, jn.args, << search, start >>,
                          Result(TRUE, Err("start failed", "")))
              /\ UNCHANGED << srvRef, srvState, connecting >>
           \/ \* StartSpace gives the instance; ConnectToSpace may fail
              /\ target \in spaces
              /\ \E s \in ServerIds :
                    /\ srvState[s] = "none"
                    /\ srvState' = [srvState EXCEPT ![s] = "running"]
                    /\ srvRef' = [srvRef EXCEPT ![s] = target]
                    /\ \/ /\ JoinDone(jn.user, jn.args,
                                << search, start,
                                   Call("ConnectToSpace", s, target) >>,
                                Result(TRUE, NoErr))
                          /\ connecting' =
                                [connecting EXCEPT ![jn.user] = s]
                       \/ /\ JoinDone(jn.user, jn.args,
                                << search, start,
                                   Call("ConnectToSpace", s, target) >>,
                                Result(TRUE, Err("connect failed", "")))
                          /\ UNCHANGED connecting
    /\ UNCHANGED << spaces, userServer >>
    /\ UNCHANGED outsideJoin

\* the caller has taken the result
JoinCollect ==
    /\ jn.pc = "done"
    /\ jn' = IdleJoin
    /\ UNCHANGED << srvRef, spaces, srvState, userServer, connecting >>
    /\ UNCHANGED outsideJoin

(***************************************************************************)
(* SpecJoin: join commands against any registry of servers and any set of  *)
(* spaces; connections complete in the background.                         *)
(***************************************************************************)
InitJoin ==
    /\ srvState \in [ServerIds -> {"none", "created", "running"}]
    /\ srvRef \in [ServerIds -> Targets]
    /\ spaces \in SUBSET Targets
    /\ jn = IdleJoin
    /\ nextId = MaxServers
    /\ sinceCreate = [o \in Origins |-> NoTime]
    /\ hostServers = [o \in Origins |-> NoServer]
    /\ createMutex = 0
    /\ srvCmds = [s \in ServerIds |-> << >>]
    /\ userServer = [u \in Users |-> NoServer]
    /\ connecting = [u \in Users |-> NoServer]
    /\ cmd = [c \in Cmds |-> IdleCmd]
    /\ InitCatalog /\ InitInferIdle /\ InitQueueIdle /\ InitWrapIdle
    /\ InitLoopIdle /\ InitRunIdle /\ InitGrantIdle

NextJoin ==
    \/ JoinCheck
    \/ JoinServer
    \/ JoinSpace
    \/ JoinCollect
    \/ \E u \in Users : ConnectDone(u)

SpecJoin == InitJoin /\ [][NextJoin]_vars

\* C4: join X while the session's current server references X returns
\* handled with no error, makes no collaborator call and leaves the
\* session's current server and connection alone.
C4_JoinIdempotent ==
    [][(/\ jn.pc = "idle" /\ jn'.pc # "idle"
        /\ Len(jn'.args) = 1
        /\ userServer[jn'.user] # NoServer
        /\ IsReference(userServer[jn'.user], jn'.args[1]))
       => /\ jn'.pc = "done"
          /\ jn'.result = Result(TRUE, NoErr)
          /\ jn'.calls = << >>
          /\ UNCHANGED << userServer, connecting >>]_vars

C5_Step ==
    (jn.pc = "scan" /\ jn'.pc = "done")
    => LET target == jn.args[1]
           running == { s \in ServerIds :
                           /\ srvState[s] \in {"created", "running"}
                           /\ srvRef[s] = target
                           /\ srvState[s] = "running" }
       IN  IF running # {}
           THEN /\ Len(jn'.calls) = 1
                /\ jn'.calls[1].fn = "Connect"
                /\ jn'.calls[1].srv \in running
                /\ jn'.result.err = NoErr
                   => connecting'[jn.user] = jn'.calls[1].srv
           ELSE /\ Len(jn'.calls) >= 1
                /\ jn'.calls[1] = Call("SearchSpace", NoServer, target)
                /\ \A i \in 1..Len(jn'.calls) : jn'.calls[i].fn # "Connect"

\* C5: a join that is not already on its target connects the session to a
\* running server whose reference matches, with Connect as its only call
\* (no SearchSpace, no StartSpace), whether or not a space has the code; a
\* matching server that is not running is never the one connected to, and
\* SearchSpace is called only when no running server matches.
C5_ServersFirst == [][C5_Step]_vars

\* joined the running server although a space has the code and an earlier
\* server with the reference is not running
C5_Witness ==
    /\ jn.pc = "done"
    /\ jn.calls = << Call("Connect", 2, "") >>
    /\ jn.result = Result(TRUE, NoErr)
    /\ jn.args[1] \in spaces
    /\ srvState[1] = "created" /\ srvRef[1] = jn.args[1]

(***************************************************************************)
(* Timeout wrapper: RunCommandWithTimeout and its dispatcher task.         *)
(***************************************************************************)
outsideWrap == << catalogVars, inferVars, createVars, joinVars, queueVars,
                 loopVars, runVars, grantVars >>

\* results RunCommand returns
DispatcherResults ==
    { Result(TRUE, NoErr), Result(FALSE, NoErr),
      Result(TRUE, Err("too soon since last server create", "")),
      Result(TRUE, Err("join takes a single argument", "")) }

TimedOut == Result(FALSE, Err("command timed out", ""))

\* lines 300-313: derive the context, make the channel, start the task,
\* reach the select
WrapInvoke ==
    /\ wrap.pc = "idle"
    /\ wrap' = [wrap EXCEPT !.pc = "select", !.disp = "running"]
    /\ UNCHANGED outsideWrap

\* line 307: RunCommand returns; the task blocks in the send of line 308
DispatcherReturn ==
    /\ wrap.disp = "running"
    /\ \E r \in DispatcherResults :
          wrap' = [wrap EXCEPT !.disp = "sending", !.dres = r]
    /\ UNCHANGED outsideWrap

\* a second passes
WrapTick ==
    /\ wrap.pc # "idle"
    /\ wrap.elapsed < CommandTimeout
    /\ wrap' = [wrap EXCEPT !.elapsed = @ + 1]
    /\ UNCHANGED outsideWrap

\* the deadline of context.WithTimeout fires
DeadlineFire ==
    /\ wrap.pc # "idle"
    /\ wrap.elapsed = CommandTimeout
    /\ ~wrap.deadline
    /\ wrap' = [wrap EXCEPT !.ctxDone = TRUE, !.deadline = TRUE]
    /\ UNCHANGED outsideWrap

\* the caller's context is cancelled
ParentCancel ==
    /\ wrap.pc = "select"
    /\ ~wrap.ctxDone
    /\ wrap' = [wrap EXCEPT !.ctxDone = TRUE]
    /\ UNCHANGED outsideWrap

\* mutant: the select has no ctx.Done() case
DoneNotWatched == FALSE

\* line 318: <-ctx.Done() is ready
DoneReady == wrap.ctxDone

\* lines 316-317: the result arrives; the send completes and the task ends;
\* the deferred cancel runs
WrapReceive ==
    /\ wrap.pc = "select"
    /\ wrap.disp = "sending"
    /\ wrap' = [wrap EXCEPT !.pc = "returned", !.out = wrap.dres,
                            !.disp = "exited", !.ctxDone = TRUE]
    /\ UNCHANGED outsideWrap

\* lines 318-320: the context is done
WrapTimeout ==
    /\ wrap.pc = "select"
    /\ DoneReady
    /\ wrap' = [wrap EXCEPT !.pc = "returned", !.out = TimedOut]
    /\ UNCHANGED outsideWrap

(***************************************************************************)
(* SpecTimeout: one call of RunCommandWithTimeout; the dispatcher may      *)
(* return at any time or never.  Time passes, the timer fires, and a       *)
(* select with a ready case proceeds.                                      *)
(***************************************************************************)
InitTimeout ==
    /\ InitCatalog /\ InitInferIdle /\ InitCreate /\ InitJoinIdle
    /\ InitQueueIdle /\ InitWrapIdle /\ InitLoopIdle /\ InitRunIdle /\ InitGrantIdle

NextTimeout ==
    \/ WrapInvoke
    \/ DispatcherReturn
    \/ WrapTick
    \/ DeadlineFire
    \/ ParentCancel
    \/ WrapReceive
    \/ WrapTimeout

SpecTimeout ==
    /\ InitTimeout /\ [][NextTimeout]_vars
    /\ WF_vars(WrapTick)
    /\ WF_vars(DeadlineFire)
    /\ WF_vars(WrapReceive \/ WrapTimeout)

C6_Inv ==
    wrap.pc = "returned"
    => \/ wrap.out = wrap.dres /\ wrap.disp = "exited"
       \/ wrap.out = TimedOut /\ wrap.ctxDone /\ wrap.disp # "exited"

C6_Step ==
    (wrap.pc = "select" /\ wrap'.pc = "returned")
    => /\ (wrap.disp = "sending" /\ ~wrap.ctxDone) => wrap'.out = wrap.dres
       /\ (wrap.ctxDone /\ wrap.disp # "sending") => wrap'.out = TimedOut
       /\ wrap'.elapsed = wrap.elapsed

\* C6: RunCommandWithTimeout always returns, also when the dispatcher never
\* does; a result that is ready while the context is not done is what the
\* caller gets, and when the context is done (the deadline fired) and no
\* result is ready the caller gets "command timed out"; what it returns is
\* always one of the two.
C6_AlwaysReturns ==
    /\ []C6_Inv
    /\ [][C6_Step]_vars
    /\ (wrap.pc = "select") ~> (wrap.pc = "returned")

\* the deadline fired and the wrapper returned the timeout while the
\* dispatcher is still running
C6_Witness ==
    /\ wrap.pc = "returned"
    /\ wrap.out = TimedOut
    /\ wrap.deadline
    /\ wrap.disp = "running"

(***************************************************************************)
(* Reminder loop: GivePrivateMatchHelp.                                    *)
(***************************************************************************)
outsideLoop == << catalogVars, inferVars, createVars, joinVars, queueVars,
                 wrapVars, runVars, grantVars >>

\* mutant: the reminder also goes out at a count of MinPlayers
AloneOrPair(n) == n <= MinPlayers

\* line 35
StillAlone(n) == n < MinPlayers

\* lines 19-27: ticker, message, session context
HelpStart ==
    /\ loop.pc = "idle"
    /\ loop' = [loop EXCEPT !.pc = "lock"]
    /\ UNCHANGED << numClients, gsMutex, outsideLoop >>

\* line 31
HelpLock ==
    /\ loop.pc = "lock"
    /\ gsMutex = "free"
    /\ gsMutex' = "loop"
    /\ loop' = [loop EXCEPT !.pc = "read"]
    /\ UNCHANGED << numClients, outsideLoop >>

\* line 32
HelpRead ==
    /\ loop.pc = "read"
    /\ loop' = [loop EXCEPT !.pc = "unlock", !.read = numClients]
    /\ UNCHANGED << numClients, gsMutex, outsideLoop >>

\* line 33
HelpUnlock ==
    /\ loop.pc = "unlock"
    /\ gsMutex' = "free"
    /\ loop' = [loop EXCEPT !.pc = "test"]
    /\ UNCHANGED << numClients, outsideLoop >>

\* lines 35-39
HelpTest ==
    /\ loop.pc = "test"
    /\ IF StillAlone(loop.read)
         THEN /\ loop.sent < MaxReminders
              /\ loop' = [loop EXCEPT !.pc = "wait", !.sent = @ + 1]
         ELSE loop' = [loop EXCEPT !.pc = "returned", !.sawFull = TRUE]
    /\ UNCHANGED << numClients, gsMutex, outsideLoop >>

\* lines 41-48: the select; a case that is ready is taken
HelpWait ==
    /\ loop.pc = "wait"
    /\ \/ loop.sessionDone /\ loop' = [loop EXCEPT !.pc = "returned"]
       \/ loop.ctxDone /\ loop' = [loop EXCEPT !.pc = "returned"]
       \/ loop' = [loop EXCEPT !.pc = "lock", !.read = NoRead]
    /\ UNCHANGED << numClients, gsMutex, outsideLoop >>

\* the game server: a client joins or leaves, under the server's mutex
ClientChange ==
    /\ gsMutex = "free"
    /\ \E n \in { numClients - 1, numClients + 1 } \cap (0..MaxClients) :
          numClients' = n
    /\ UNCHANGED << gsMutex, loop, outsideLoop >>

\* the user's session on the server ends
SessionEnd ==
    /\ ~loop.sessionDone
    /\ loop' = [loop EXCEPT !.sessionDone = TRUE]
    /\ UNCHANGED << numClients, gsMutex, outsideLoop >>

\* the context handed to the loop is cancelled
HelpCancel ==
    /\ ~loop.ctxDone
    /\ loop' = [loop EXCEPT !.ctxDone = TRUE]
    /\ UNCHANGED << numClients, gsMutex, outsideLoop >>

(***************************************************************************)
(* SpecReminder: one reminder loop beside a server whose client count      *)
(* changes at any time.                                                    *)
(***************************************************************************)
InitReminder ==
    /\ InitCatalog /\ InitInferIdle /\ InitCreate /\ InitJoinIdle
    /\ InitQueueIdle /\ InitWrapIdle
    /\ numClients \in 0..1
    /\ gsMutex = "free"
    /\ loop = IdleLoop
    /\ InitRunIdle /\ InitGrantIdle

NextReminder ==
    \/ HelpStart
    \/ HelpLock
    \/ HelpRead
    \/ HelpUnlock
    \/ HelpTest
    \/ HelpWait
    \/ ClientChange
    \/ SessionEnd
    \/ HelpCancel

SpecReminder == InitReminder /\ [][NextReminder]_vars

C7_Inv ==
    /\ loop.pc \in {"unlock", "test"} => loop.read \in 0..MaxClients
    /\ loop.pc \in {"lock", "read"} => loop.read = NoRead
    /\ loop.sawFull => loop.pc = "returned"

C7_Step ==
    /\ loop'.read # loop.read /\ loop'.read # NoRead
         => gsMutex = "loop" /\ loop'.read = numClients
    /\ loop'.sent # loop.sent
         => /\ loop.pc = "test"
            /\ loop.read \in 0..(MinPlayers - 1)
            /\ loop'.sent = loop.sent + 1
    /\ loop.pc = "test" /\ loop.read >= MinPlayers
         => loop'.pc \in {"test", "returned"} /\ loop'.sent = loop.sent
    /\ loop.pc = "returned"
         => loop'.pc = "returned" /\ loop'.sent = loop.sent

\* C7: the reminder loop sends a reminder only in an iteration whose read of
\* the client count, taken while holding the server's mutex, was below 2;
\* an iteration that read 2 or more ends the loop, and an ended loop stays
\* ended and sends nothing, whatever the client count does afterwards.
C7_Reminder == []C7_Inv /\ [][C7_Step]_vars

\* the loop sent a reminder, then read a full server and ended, and the
\* count has dropped back to 1
C7_Witness ==
    /\ loop.pc = "returned"
    /\ loop.sawFull
    /\ loop.sent >= 1
    /\ loop.read >= MinPlayers
    /\ numClients = 1

(***************************************************************************)
(* Queue gateway: the duel and stopduel cases of RunCommand.               *)
(***************************************************************************)
outsideQueue == << catalogVars, inferVars, createVars, joinVars, wrapVars,
                  loopVars, runVars, grantVars >>

\* strings.Split(command, " ") of the commands issued
QueueArgs ==
    { << "duel" >>, << "duel", "" >>, << "duel", "ffa" >>,
      << "duel", "insta" >>, << "duel", "ffa", "insta" >>,
      << "stopduel" >>, << "stopduel", "ffa" >> }

\* why matches.Queue may refuse
QueueFailures == { "no such type", "already queued", "matchmaker closed" }

QueueCall(fn, u, type, err) == [fn |-> fn, user |-> u, type |-> type,
                                err |-> err]

\* lines 260-263
DuelType(args) == IF Len(args) > 1 THEN args[2] ELSE ""

\* mutant: the matchmaker's own error reaches the caller
DuelErrorPassedOn(type, cause) == Err(cause, type)

\* line 268
DuelError(type, cause) == Err("duel type does not exist", type)

\* lines 101-110: the command is split and its verb selected
QueueInvoke ==
    /\ qcmd.pc = "idle"
    /\ \E u \in Users, a \in QueueArgs :
          qcmd' = [qcmd EXCEPT !.pc = "run", !.user = u, !.args = a]
    /\ UNCHANGED << queued, outsideQueue >>

\* lines 259-271
Duel ==
    /\ qcmd.pc = "run"
    /\ qcmd.args[1] = "duel"
    /\ LET u == qcmd.user
           type == DuelType(qcmd.args)
       IN  \/ /\ queued' = [queued EXCEPT ![u] = "queued"]
              /\ qcmd' = [qcmd EXCEPT
                     !.pc = "done",
                     !.calls = << QueueCall("Queue", u, type, "") >>,
                     !.result = Result(TRUE, NoErr)]
           \/ /\ \E cause \in QueueFailures :
                    qcmd' = [qcmd EXCEPT
                       !.pc = "done",
                       !.calls = << QueueCall("Queue", u, type, cause) >>,
                       !.result = Result(TRUE, DuelError(type, cause))]
              /\ UNCHANGED queued
    /\ UNCHANGED outsideQueue

\* lines 273-275
StopDuel ==
    /\ qcmd.pc = "run"
    /\ qcmd.args[1] = "stopduel"
    /\ queued' = [queued EXCEPT ![qcmd.user] = "none"]
    /\ qcmd' = [qcmd EXCEPT
           !.pc = "done",
           !.calls = << QueueCall("Dequeue", qcmd.user, "", "") >>,
           !.result = Result(TRUE, NoErr)]
    /\ UNCHANGED outsideQueue

\* the caller has the result; the next command may come
QueueCollect ==
    /\ qcmd.pc = "done"
    /\ qcmd' = IdleQueueCmd
    /\ UNCHANGED << queued, outsideQueue >>

(***************************************************************************)
(* SpecQueue: duel and stopduel commands of two users, one after another,  *)
(* against a matchmaker that accepts or refuses as it likes.               *)
(***************************************************************************)
InitQueue ==
    /\ InitCatalog /\ InitInferIdle /\ InitCreate /\ InitJoinIdle
    /\ InitWrapIdle /\ InitLoopIdle /\ InitRunIdle /\ InitGrantIdle
    /\ queued \in [Users -> {"none", "queued"}]
    /\ qcmd = IdleQueueCmd

NextQueue ==
    \/ QueueInvoke
    \/ Duel
    \/ StopDuel
    \/ QueueCollect

SpecQueue == InitQueue /\ [][NextQueue]_vars

C10_Inv ==
    qcmd.pc = "done"
    => LET a == qcmd.args
           type == IF Len(a) >= 2 THEN a[2] ELSE ""
       IN  /\ Len(qcmd.calls) = 1
           /\ qcmd.calls[1].user = qcmd.user
           /\ qcmd.result.handled
           /\ a[1] = "duel"
                => /\ qcmd.calls[1].fn = "Queue"
                   /\ qcmd.calls[1].type = type
                   /\ qcmd.calls[1].err = ""
                        => qcmd.result.err = NoErr
                   /\ qcmd.calls[1].err # ""
                        => qcmd.result.err =
                              [kind |-> "duel type does not exist",
                               arg |-> type]
           /\ a[1] = "stopduel"
                => /\ qcmd.calls[1].fn = "Dequeue"
                   /\ qcmd.result.err = NoErr

C10_Step ==
    (qcmd.pc = "run" /\ qcmd'.pc # "run")
    => /\ qcmd'.pc = "done"
       /\ qcmd.args[1] = "stopduel"
            => /\ qcmd'.calls = << QueueCall("Dequeue", qcmd.user, "", "") >>
               /\ queued'[qcmd.user] = "none"

\* C10: duel hands its argument, or the empty string when there is none, to
\* the matchmaker's Queue and returns handled with no error when Queue
\* accepts, and handled with the error "duel type '<type>' does not exist"
\* whatever the reason Queue refuses; stopduel calls Dequeue and returns
\* handled with no error whether the user was queued or not.
C10_QueueGateway == []C10_Inv /\ [][C10_Step]_vars

\* duel without an argument, refused for a reason other than the type
C10_Witness ==
    /\ qcmd.pc = "done"
    /\ qcmd.args = << "duel" >>
    /\ qcmd.calls[1].err = "matchmaker closed"
    /\ qcmd.result = Result(TRUE, Err("duel type does not exist", ""))

(***************************************************************************)
(* The verb switch of RunCommand.                                          *)
(***************************************************************************)
outsideRun == << catalogVars, inferVars, createVars, joinVars, wrapVars,
                loopVars, grantVars >>

\* a command text is a string of pieces: words, and the space
Pieces == { "creategame", "edit", "join", "duel", "stopduel", "stop",
            "home", "help", "Help", "x", " " }

Texts == SeqsUpTo(Pieces, MaxPieces)

\* strings.Split(command, " "): one field more than there are spaces
RECURSIVE SplitFrom(_, _)
SplitFrom(fields, text) ==
    IF text = << >> THEN fields
    ELSE IF Head(text) = " "
    THEN SplitFrom(Append(fields, ""), Tail(text))
    ELSE SplitFrom([fields EXCEPT ![Len(fields)] = @ \o Head(text)],
                   Tail(text))

Split(text) == SplitFrom(<< "" >>, text)

\* the case labels of the switch (lines 112-281)
Verbs == { "creategame", "edit", "join", "duel", "stopduel", "home", "help" }

\* mutant: a default case answers like help
CaseOfWithDefault(verb) == IF verb \in Verbs THEN verb ELSE "help"

\* line 111: the case args[0] selects, "" when none does
CaseOf(verb) == IF verb \in Verbs THEN verb ELSE ""

\* lines 101-111 and 296: split, the empty check, the switch; the cases
\* duel and stopduel run in the steps Duel and StopDuel
Dispatch ==
    /\ rc.pc = "idle"
    /\ qcmd.pc = "idle"
    /\ \E u \in Users, text \in Texts :
         LET args == Split(text)
         IN  IF Len(args) = 0
             THEN /\ rc' = [rc EXCEPT !.pc = "done", !.user = u,
                               !.text = text, !.args = args,
                               !.result = Result(FALSE,
                                            Err("invalid command", ""))]
                  /\ UNCHANGED qcmd
             ELSE IF CaseOf(args[1]) = ""
             THEN /\ rc' = [rc EXCEPT !.pc = "done", !.user = u,
                               !.text = text, !.args = args,
                               !.result = Result(FALSE, NoErr)]
                  /\ UNCHANGED qcmd
             ELSE /\ rc' = [rc EXCEPT !.pc = "case", !.user = u,
                               !.text = text, !.args = args,
                               !.route = CaseOf(args[1])]
                  /\ IF CaseOf(args[1]) \in {"duel", "stopduel", "help"}
                     THEN qcmd' = [qcmd EXCEPT !.pc = "run", !.user = u,
                                               !.args = args]
                     ELSE UNCHANGED qcmd
    /\ UNCHANGED << queued, outsideRun >>

\* lines 281-293: help sends its messages to the session
Help ==
    /\ qcmd.pc = "run"
    /\ qcmd.args[1] = "help"
    /\ qcmd' = [qcmd EXCEPT !.pc = "done", !.result = Result(TRUE, NoErr)]
    /\ UNCHANGED << queued, runVars, outsideRun >>

\* the return of a duel, stopduel or help case
CaseReturn ==
    /\ rc.pc = "case"
    /\ qcmd.pc = "done"
    /\ rc' = [rc EXCEPT !.pc = "done", !.result = qcmd.result]
    /\ qcmd' = IdleQueueCmd
    /\ UNCHANGED << queued, outsideRun >>

\* the caller has the result, or the case is one of creategame, edit, join
\* and home, whose steps are not part of this specification
RunCollect ==
    /\ \/ rc.pc = "done"
       \/ rc.pc = "case" /\ rc.route \in {"creategame", "edit", "join", "home"}
    /\ rc' = IdleRun
    /\ UNCHANGED << queueVars, outsideRun >>

(***************************************************************************)
(* SpecDispatch: commands of any text, one after another; the cases duel,  *)
(* stopduel and help run to their return.                                  *)
(***************************************************************************)
InitDispatch ==
    /\ InitCatalog /\ InitInferIdle /\ InitCreate /\ InitJoinIdle
    /\ InitQueueIdle /\ InitWrapIdle /\ InitLoopIdle /\ InitRunIdle /\ InitGrantIdle

NextDispatch ==
    \/ Dispatch
    \/ Duel
    \/ StopDuel
    \/ Help
    \/ CaseReturn
    \/ RunCollect

SpecDispatch == InitDispatch /\ [][NextDispatch]_vars

C11_Unknown(args) == Len(args) >= 1 /\ args[1] \notin
    { "creategame", "edit", "join", "duel", "stopduel", "home", "help" }

C11_Step ==
    (rc.pc = "idle" /\ rc'.pc # "idle" /\ C11_Unknown(rc'.args))
    => /\ rc'.pc = "done"
       /\ rc'.result = [handled |-> FALSE, response |-> "", err |-> NoErr]
       /\ UNCHANGED << catalogVars, createVars, joinVars, queueVars >>

C11_Inv ==
    (rc.pc = "case" \/ (rc.pc = "done" /\ rc.result.handled))
    => ~C11_Unknown(rc.args)

\* C11: a command whose first token is not exactly one of the seven verbs
\* returns handled=false with an empty response and no error, and changes
\* none of the Cooldown and Ownership Records, the sessions' servers, the
\* manager's servers, the spaces and the matchmaking queue; no case of the
\* switch is entered for it.
C11_Unhandled == []C11_Inv /\ [][C11_Step]_vars

\* "joinx" was not handled, while a user is queued for a duel
C11_Witness ==
    /\ rc.pc = "done"
    /\ rc.args = << "joinx" >>
    /\ rc.result = Result(FALSE, NoErr)
    /\ \E u \in Users : queued[u] = "queued"

\* C20: RunCommand on the empty command text returns the error "invalid
\* command".
C20_EmptyIsError ==
    (rc.pc = "done" /\ rc.text = << >>)
    => rc.result.err = Err("invalid command", "")

\* C12: the dispatcher task never blocks delivering its result: whenever it
\* is in the send of line 308, the send can complete, which on the
\* unbuffered resultChannel takes a wrapper that is still in its select;
\* so no task is left in the send after its wrapper has returned.
C12_SendCompletes == wrap.disp = "sending" => wrap.pc = "select"

\* C13: the server handed to the reminder loop a creategame spawns is the
\* server that creategame provisioned: never no server, never the server
\* the session was attached to before.
C13_LoopWatchesNew ==
    \A c \in Cmds :
       cmd[c].pc = "return"
       => /\ cmd[c].help # NoServer
          /\ cmd[c].help = cmd[c].gameServer

\* a creategame of origin o is between its call and its return
InProgress(o) ==
    \E c \in Cmds : cmd[c].pc \notin {"idle", "done"} /\ OriginOf(c) = o

\* C14: no provisioned server is leaked: when a creategame returns, also
\* from a failure, and leaves no creategame of its origin in progress, the
\* server it had created for the origin is the one in the origin's
\* Ownership Record, unless its removal was requested.
C14_NoLeak ==
    [][\A c \in Cmds :
          (/\ cmd[c].pc \notin {"idle", "done"}
           /\ cmd'[c].pc = "done"
           /\ cmd[c].gameServer # NoServer
           /\ ~InProgress(OriginOf(c))')
          => \/ srvState'[cmd[c].gameServer] = "removed"
             \/ hostServers'[OriginOf(c)] = cmd[c].gameServer]_vars

C15_Inv ==
    \A o \in Origins :
       (~InProgress(o) /\ hostServers[o] # NoServer)
       => srvState[hostServers[o]] # "removed"

C15_Step ==
    \A c \in Cmds :
       (cmd[c].pc = "remove" /\ cmd'[c].pc = "new"
        /\ cmd'[c].existingServer # NoServer)
       => srvState[cmd'[c].existingServer] # "removed"

\* C15: while no creategame of an origin is in progress, the origin's
\* Ownership Record does not refer to a server whose removal was requested,
\* and no creategame requests the removal of a server a second time.
C15_NoStaleOwner == []C15_Inv /\ [][C15_Step]_vars

C16_Failed(c) ==
    /\ cmd[c].pc \in {"new", "start"}
    /\ cmd'[c].pc = "done"

C16_Inv ==
    \A c \in Cmds :
       cmd[c].pc \in {"remove", "new", "start"}
       => /\ createMutex = c
          /\ cmd[c].conn = "none"
          /\ cmd[c].sinceRec = NoTime
          /\ cmd[c].gameServer # NoServer
               => srvCmds[cmd[c].gameServer] = << >>

C16_Step ==
    \A c \in Cmds :
       /\ cmd[c].pc \in {"remove", "new", "start"}
            => sinceCreate'[OriginOf(c)] \in
                  { sinceCreate[OriginOf(c)],
                    Elapse(sinceCreate[OriginOf(c)]) }
       /\ C16_Failed(c)
            => /\ cmd'[c].result.handled
               /\ cmd'[c].result.err =
                    [kind |-> IF cmd[c].pc = "new"
                              THEN "failed to create server"
                              ELSE "server failed to start",
                     arg |-> ""]
               /\ createMutex' = 0
               /\ UNCHANGED << sinceCreate, hostServers, srvCmds,
                               connecting, userServer >>
               /\ ~TooSoon(OriginOf(c))'

\* C16: a creategame whose NewServer or StartAndWait fails returns handled
\* with the generic error of that step, releases createMutex, and writes no
\* Cooldown Record from its call to its return, so the origin is not inside
\* a cooldown afterwards; it has sent no directive, started no connection
\* and spawned no task.
C16_FailureIsClean == []C16_Inv /\ [][C16_Step]_vars

\* the server was created but failed to start; the lock is free and the
\* origin has no Cooldown Record
C16_Witness ==
    \E c \in Cmds :
       /\ cmd[c].pc = "done"
       /\ cmd[c].result = Result(TRUE, Err("server failed to start", ""))
       /\ createMutex = 0
       /\ sinceCreate[OriginOf(c)] = NoTime
       /\ \E s \in ServerIds : srvState[s] = "created"

\* C18: creategame commands of different origins do not wait on each
\* other: a creategame that waits for createMutex waits for a creategame of
\* its own origin, so one that is stuck in StartAndWait holds up no other
\* origin.
C18_OriginsIndependent ==
    \A c \in Cmds :
       (cmd[c].pc = "lock" /\ createMutex # 0)
       => OriginOf(createMutex) = OriginOf(c)

\* the first token of args that names a mode
FirstMode(args) ==
    LET i == CHOOSE j \in 1..Len(args) :
                /\ IsMode(args[j])
                /\ \A k \in 1..(j - 1) : ~IsMode(args[k])
    IN  args[i]

\* C19: when several tokens classify as modes, inferCreateParams keeps the
\* first of them in input order.
C19_FirstWins ==
    (inferOut # InferPending /\ inferOut.err = NoErr
     /\ \E j \in 1..Len(inferArgs) : IsMode(inferArgs[j]))
    => inferOut.params.Mode = getModeNumber(FirstMode(inferArgs))

(***************************************************************************)
(* The grantmaster task of creategame (lines 166-184).                     *)
(***************************************************************************)
outsideGrant == << catalogVars, inferVars, createVars, joinVars, queueVars,
                  wrapVars, loopVars, runVars >>

\* line 166: ConnectToServer starts the connection and returns the channel
\* it reports on, or fails; its error is not looked at
GrantConnect ==
    /\ grant.pc = "idle"
    /\ \E k \in {"started", "failed"} :
          grant' = [grant EXCEPT !.pc = "spawn", !.conn = k]
    /\ UNCHANGED outsideGrant

\* lines 168-172: the task starts, derives its context from the session's
\* and reaches the select
GrantSpawn ==
    /\ grant.pc = "spawn"
    /\ grant' = [grant EXCEPT !.pc = "select", !.ctxDone = grant.sessionDone]
    /\ UNCHANGED outsideGrant

\* the connection reports its outcome on the channel
ConnReport ==
    /\ grant.conn = "started"
    /\ grant.report = "none"
    /\ \E r \in {"ok", "fail"} : grant' = [grant EXCEPT !.report = r]
    /\ UNCHANGED outsideGrant

\* a second passes
GrantTick ==
    /\ grant.pc \in {"select", "grant"}
    /\ grant.elapsed < GrantTimeout
    /\ grant' = [grant EXCEPT !.elapsed = @ + 1]
    /\ UNCHANGED outsideGrant

\* the deadline of the task's context fires
GrantDeadline ==
    /\ grant.pc \in {"select", "grant"}
    /\ grant.elapsed = GrantTimeout
    /\ ~grant.ctxDone
    /\ grant' = [grant EXCEPT !.ctxDone = TRUE]
    /\ UNCHANGED outsideGrant

\* user.Connection.SessionContext() is cancelled
SessionCancel ==
    /\ ~grant.sessionDone
    /\ grant' = [grant EXCEPT
          !.sessionDone = TRUE,
          !.ctxDone = IF grant.pc \in {"idle", "spawn"} THEN @ ELSE TRUE]
    /\ UNCHANGED outsideGrant

\* mutant: the status is not tested
StatusAny(report) == TRUE

\* line 175
StatusOk(report) == report = "ok"

\* lines 174-177: the report is received
GrantRecv ==
    /\ grant.pc = "select"
    /\ grant.report # "none"
    /\ grant' = [grant EXCEPT
          !.pc = IF StatusOk(grant.report) THEN "grant" ELSE "exited"]
    /\ UNCHANGED outsideGrant

\* line 179: gameServer.SendCommand("grantmaster ...")
GrantSend ==
    /\ grant.pc = "grant"
    /\ grant' = [grant EXCEPT !.pc = "exited", !.sent = @ + 1]
    /\ UNCHANGED outsideGrant

\* lines 180-182: the context is done
GrantDone ==
    /\ grant.pc = "select"
    /\ grant.ctxDone
    /\ grant' = [grant EXCEPT !.pc = "exited"]
    /\ UNCHANGED outsideGrant

(***************************************************************************)
(* SpecGrant: the tail of one successful creategame.  The connection may   *)
(* report at any time or never, the session may end at any time; time      *)
(* passes, the timer fires, a started task runs, and a select with a ready *)
(* case proceeds.                                                          *)
(***************************************************************************)
InitGrant ==
    /\ InitCatalog /\ InitInferIdle /\ InitCreate /\ InitJoinIdle
    /\ InitQueueIdle /\ InitWrapIdle /\ InitLoopIdle /\ InitRunIdle /\ InitGrantIdle

NextGrant ==
    \/ GrantConnect
    \/ GrantSpawn
    \/ ConnReport
    \/ GrantTick
    \/ GrantDeadline
    \/ SessionCancel
    \/ GrantRecv
    \/ GrantSend
    \/ GrantDone

SpecGrant ==
    /\ InitGrant /\ [][NextGrant]_vars
    /\ WF_vars(GrantSpawn)
    /\ WF_vars(GrantTick)
    /\ WF_vars(GrantDeadline)
    /\ WF_vars(GrantRecv \/ GrantDone)
    /\ WF_vars(GrantSend)

C17_Inv ==
    /\ grant.sent <= 1
    /\ grant.sent = 1 => grant.report = "ok"
    /\ grant.pc = "grant" => grant.report = "ok"
    /\ grant.conn = "failed" => grant.report = "none"

C17_Step ==
    /\ grant'.sent # grant.sent
         => grant.pc = "grant" /\ grant'.pc = "exited"
    /\ grant.pc = "exited" => grant'.pc = "exited"
    /\ (grant.pc = "select" /\ grant.report # "ok")
         => grant'.pc \in {"select", "exited"}

C17_Terminates == (grant.pc = "spawn") ~> (grant.pc = "exited")

\* C17 as stated: the task sends the grant at most once, only after the
\* connection reported success, and never once the 10-second ceiling has
\* elapsed or the session has been cancelled; without a success report it
\* sends nothing; it always terminates.
C17_GrantInTime ==
    /\ []C17_Inv
    /\ [][C17_Step]_vars
    /\ [][grant'.sent # grant.sent
            => ~grant.ctxDone /\ ~grant.sessionDone]_vars
    /\ C17_Terminates

\* C17 as amended: the task sends the grant at most once, and only after
\* its select received a success report; after a failure report, without a
\* report (also when ConnectToServer failed), and once the select has taken
\* the done case, it sends nothing; it always terminates.
C17_Grant ==
    /\ []C17_Inv
    /\ [][C17_Step]_vars
    /\ C17_Terminates

\* ConnectToServer failed, nothing was ever reported, and the ceiling ended
\* the task without a grant
C17_Witness ==
    /\ grant.pc = "exited"
    /\ grant.conn = "failed"
    /\ grant.elapsed = GrantTimeout
    /\ ~grant.sessionDone
    /\ grant.sent = 0

=============================================================================
